---- MODULE Spec2Model ----
(***************************************************************************)
(* State-machine model of sdgrpcserver/manager.py: the device / precision  *)
(* policy (EngineMode), the registry of pipeline wrappers and its          *)
(* single-active swap (EngineManager), the per-wrapper placement           *)
(* (PipelineWrapper.activate / deactivate), scheduler dispatch in          *)
(* PipelineWrapper.generate and the cancellable step iteration             *)
(* (ProgressBarWrapper.InternalTqdm).                                      *)
(***************************************************************************)
EXTENDS Integers, Sequences, FiniteSets, TLC

(***************************************************************************)
(* Bounds of the model.                                                    *)
(***************************************************************************)
MaxVramO == 4
NumEngines == 3
MaxCalls == 4
MaxGen == 2
MaxSteps == 3

None == "None"

VARIABLES
  \* EngineMode fields and the runtime probes they consult
  vramO, enable_cuda, enable_mps, cudaAvail, mpsAvail,
  \* last reading of the EngineMode properties by a client
  modeRead,
  \* EngineManager fields
  engines, pipelines, default, active,
  \* position of the serving process and the record of the last getPipe call
  loadState, ncalls, lastArg, lastResult, lastCalls, prevArg, prevResult,
  \* scheduler objects by reference, and one wrapper's scheduler fields
  schedulers, sched, built, warnings,
  \* the wrapper's underlying pipeline: installed scheduler and progress
  \* reporter, current device, and its invocations
  pipeScheduler, pipeProgressBar, pipeDevice, pipeCalls, lastInvoke,
  \* the record of the last generate call
  genCount, lastGen, prevSampler,
  \* the InternalTqdm of the running step loop, the stop events that are set,
  \* the progress callbacks invoked, and the number of steps that had been
  \* yielded when the loop's stop event was last set
  iter, eventsSet, cbLog, stopSetAt,
  \* EngineManager configuration: nsfw behaviour, weight root, auth token,
  \* and the directories that exist on disk
  nsfw, weight_root, token, dirs,
  \* the buildPipeline calls made by loadPipelines, the error it raised, and
  \* the last getStatus result
  builds, loadError, status,
  \* the arguments of the latest two generate calls of a serialized run
  callArgs,
  \* per thread inside getPipe: the statement it is at, the identifier it was
  \* called with, and what it returned
  tpc, targ, tret

modeVars == <<vramO, enable_cuda, enable_mps, cudaAvail, mpsAvail>>
mgrVars == <<engines, pipelines, default, active, loadState, ncalls, lastArg, lastResult,
            lastCalls, prevArg, prevResult>>
genVars == <<schedulers, sched, built, warnings, pipeScheduler, pipeProgressBar, pipeDevice,
            pipeCalls, lastInvoke, genCount, lastGen, prevSampler>>
iterVars == <<iter, eventsSet, cbLog, stopSetAt>>
cfgVars == <<nsfw, weight_root, token, dirs>>
loadVars == <<builds, loadError, status>>
runVars == <<callArgs>>
thrVars == <<tpc, targ, tret>>
vars == <<modeVars, modeRead, mgrVars, genVars, iterVars, cfgVars, loadVars, runVars, thrVars>>

(***************************************************************************)
(* EngineMode                                                              *)
(***************************************************************************)
\* torch.cuda present and torch.cuda.is_available(), gated by the enable flag
hasCuda == enable_cuda /\ cudaAvail

hasMps == enable_mps /\ mpsAvail

device == IF hasCuda THEN "cuda" ELSE IF hasMps THEN "mps" ELSE "cpu"

attention_slice == device = "cuda" /\ vramO > 0

cuda_only_unet_above3 == device = "cuda" /\ vramO > 3

cuda_only_unet == device = "cuda" /\ vramO > 2

fp16_noexcl == device = "cuda" /\ vramO > 1

fp16 == device = "cuda" /\ vramO > 1 /\ ~cuda_only_unet

ModeInit ==
  /\ vramO \in 0..MaxVramO
  /\ enable_cuda \in BOOLEAN
  /\ enable_mps \in BOOLEAN
  /\ cudaAvail \in BOOLEAN
  /\ mpsAvail \in BOOLEAN

\* EngineMode() as the default argument of EngineManager.__init__
ModeDefault ==
  /\ vramO = 0
  /\ enable_cuda = TRUE
  /\ enable_mps = FALSE
  /\ cudaAvail \in BOOLEAN
  /\ mpsAvail \in BOOLEAN

\* a client reads the four derived properties
ReadMode ==
  /\ modeRead' = <<[device |-> device, attention_slice |-> attention_slice,
                    fp16 |-> fp16, cuda_only_unet |-> cuda_only_unet]>>
  /\ UNCHANGED <<modeVars, cfgVars, runVars, thrVars, loadVars, mgrVars, genVars, iterVars>>

(***************************************************************************)
(* PipelineWrapper: construction and placement                             *)
(***************************************************************************)
\* PipelineWrapper.__init__ on a pipeline freshly loaded into host memory
NewWrapper(id, cls) ==
  [id |-> id, cls |-> cls,
   unetDev |-> "cpu", restDev |-> "cpu",
   unetHalf |-> (fp16 \/ cuda_only_unet), restHalf |-> fp16,
   slicing |-> attention_slice]

activate_whole(w) == [w EXCEPT !.unetDev = device, !.restDev = device]

\* activate that swaps an already resident wrapper out
activate_toggle(w) ==
  IF w.unetDev /= "cpu" THEN [w EXCEPT !.unetDev = "cpu", !.restDev = "cpu"]
  ELSE IF cuda_only_unet THEN [w EXCEPT !.unetDev = "cuda"]
  ELSE [w EXCEPT !.unetDev = device, !.restDev = device]

activate(w) ==
  IF cuda_only_unet THEN [w EXCEPT !.unetDev = "cuda"]
  ELSE [w EXCEPT !.unetDev = device, !.restDev = device]

deactivate_unet(w) == [w EXCEPT !.unetDev = "cpu"]

deactivate(w) == [w EXCEPT !.unetDev = "cpu", !.restDev = "cpu"]

\* the latest two entries of a call log
Keep2(log) == IF Len(log) > 2 THEN SubSeq(log, Len(log) - 1, Len(log)) ELSE log

\* the calls deactivate() makes, as log entries
DeactivateLog(id) ==
  <<[op |-> "deactivate", id |-> id]>>
  \o (IF device = "cuda" THEN <<[op |-> "empty_cache", id |-> id]>> ELSE <<>>)

ActivateLog(id) == <<[op |-> "activate", id |-> id]>>

(***************************************************************************)
(* EngineManager                                                           *)
(***************************************************************************)
AllIds == <<"e1", "e2", "e3", "e4", "e5", "e6">>
EngineIds == {AllIds[i] : i \in 1..NumEngines}
UnknownId == "zz"
KnownClasses == {"StableDiffusionPipeline", "UnifiedPipeline"}

\* engine.get(k, dflt) on a config record
Get(engine, k, dflt) == IF k \in DOMAIN engine THEN engine[k] ELSE dflt

\* engine lists with the i-th identifier at position i, each config drawn from
\* the optional-field variants in S
WithId(c, i) == [k \in DOMAIN c \cup {"id"} |-> IF k = "id" THEN AllIds[i] ELSE c[k]]
EngineLists(S) == {[i \in 1..NumEngines |-> WithId(f[i], i)] : f \in [1..NumEngines -> S]}

\* configs of the registry scenarios: enabled true / false / omitted
MgrConfigs ==
  {[class |-> "StableDiffusionPipeline", model |-> <<"m1">>, enabled |-> TRUE],
   [class |-> "UnifiedPipeline", model |-> <<"m2">>, enabled |-> FALSE],
   [class |-> "UnifiedPipeline", model |-> <<"m2">>]}

\* the threads that may be inside getPipe at the same time
Threads == {"t1", "t2"}

\* EngineManager.__init__
MgrInit(lists) ==
  /\ engines \in lists
  /\ pipelines = <<>>
  /\ default = None
  /\ active = None
  /\ loadState = "new"
  /\ ncalls = 0
  /\ lastArg = None
  /\ lastResult = None
  /\ lastCalls = <<>>
  /\ prevArg = None
  /\ prevResult = None
  /\ builds = <<>>
  /\ loadError = ""
  /\ status = <<>>
  /\ tpc = [t \in Threads |-> "idle"]
  /\ targ = [t \in Threads |-> None]
  /\ tret = [t \in Threads |-> None]

\* paths are sequences of components, absolute when they start at "/";
\* a remote model identifier is a sequence too
isabs(path) == Len(path) > 0 /\ path[1] = "/"

\* os.path.join of a root and a relative path
join(root, path) == root \o path

\* os.path.normpath: "." components dropped, "x/.." collapsed
RECURSIVE NormFrom(_, _, _)
NormFrom(path, i, acc) ==
  IF i > Len(path) THEN (IF acc = <<>> THEN <<".">> ELSE acc)
  ELSE LET c == path[i] IN
    IF c = "." THEN NormFrom(path, i + 1, acc)
    ELSE IF c = ".."
    THEN IF acc /= <<>> /\ acc[Len(acc)] \notin {"..", "/"}
         THEN NormFrom(path, i + 1, SubSeq(acc, 1, Len(acc) - 1))
         ELSE IF acc /= <<>> /\ acc[Len(acc)] = "/"
         THEN NormFrom(path, i + 1, acc)
         ELSE NormFrom(path, i + 1, Append(acc, c))
    ELSE NormFrom(path, i + 1, Append(acc, c))

normpath(path) == NormFrom(path, 1, <<>>)

isdir(path) == path \in dirs

\* _getWeightPath without the directory test
getWeightPath_no_isdir(remote_path, local_path) ==
  IF local_path /= <<>>
  THEN normpath(IF isabs(local_path) THEN local_path ELSE join(weight_root, local_path))
  ELSE remote_path

\* _getWeightPath: the local path (None and "" are the empty path) if it
\* names a directory, else the remote identifier
getWeightPath(remote_path, local_path) ==
  IF local_path /= <<>>
  THEN LET test_path == normpath(IF isabs(local_path) THEN local_path
                                 ELSE join(weight_root, local_path))
       IN IF isdir(test_path) THEN test_path ELSE remote_path
  ELSE remote_path

\* weights that from_pretrained cannot fetch
Unloadable == {<<"gone">>}

CanLoad(weight_path) == weight_path \notin Unloadable

\* buildPipeline that raises on an unrecognised class tag before it loads
\* anything
buildPipeline_raise_unknown(engine) ==
  LET weight_path == getWeightPath(engine.model, Get(engine, "local_model", <<>>))
      use_auth_token == IF Get(engine, "use_auth_token", FALSE) THEN token ELSE "False"
      load(component) == [component |-> component, weight_path |-> weight_path,
                          use_auth_token |-> use_auth_token]
      checker == IF nsfw = "flag" THEN <<load("safety_checker")>> ELSE <<>>
  IN IF engine.class /= "StableDiffusionPipeline" /\ engine.class /= "UnifiedPipeline"
     THEN [outcome |-> "raised", pipe |-> <<>>, loads |-> <<>>]
     ELSE IF CanLoad(weight_path)
     THEN [outcome |-> "wrapper", pipe |-> <<NewWrapper(engine.id, engine.class)>>,
           loads |-> checker \o <<load(engine.class)>>]
     ELSE [outcome |-> "raised", pipe |-> <<>>,
           loads |-> IF nsfw = "flag" THEN checker ELSE <<load(engine.class)>>]

\* buildPipeline: the from_pretrained calls it makes in order, and its
\* outcome: a wrapper, None for an unrecognised class tag, or the exception
\* of a from_pretrained call that fails
buildPipeline(engine) ==
  LET weight_path == getWeightPath(engine.model, Get(engine, "local_model", <<>>))
      use_auth_token == IF Get(engine, "use_auth_token", FALSE) THEN token ELSE "False"
      load(component) == [component |-> component, weight_path |-> weight_path,
                          use_auth_token |-> use_auth_token]
      checker == IF nsfw = "flag" THEN <<load("safety_checker")>> ELSE <<>>
  IN IF nsfw = "flag" /\ ~CanLoad(weight_path)
     THEN [outcome |-> "raised", pipe |-> <<>>, loads |-> checker]
     ELSE IF engine.class = "StableDiffusionPipeline" \/ engine.class = "UnifiedPipeline"
     THEN IF CanLoad(weight_path)
          THEN [outcome |-> "wrapper", pipe |-> <<NewWrapper(engine.id, engine.class)>>,
                loads |-> checker \o <<load(engine.class)>>]
          ELSE [outcome |-> "raised", pipe |-> <<>>, loads |-> checker \o <<load(engine.class)>>]
     ELSE [outcome |-> "None", pipe |-> <<>>, loads |-> checker]

\* loadPipelines that goes on to the next engine when one cannot be built
RECURSIVE LoadFrom_skip_broken(_, _, _, _)
LoadFrom_skip_broken(i, regs, dflt, log) ==
  IF i > Len(engines)
  THEN [pipelines |-> regs, default |-> dflt, outcome |-> "loaded", builds |-> log, error |-> ""]
  ELSE LET engine == engines[i] IN
    IF ~Get(engine, "enabled", FALSE) THEN LoadFrom_skip_broken(i + 1, regs, dflt, log)
    ELSE LET made == buildPipeline(engine)
             log2 == Append(log, [id |-> engine.id, class |-> engine.class,
                                  outcome |-> made.outcome, loads |-> made.loads])
         IN IF made.outcome /= "wrapper" THEN LoadFrom_skip_broken(i + 1, regs, dflt, log2)
            ELSE LET pipe == made.pipe[1] IN
              LoadFrom_skip_broken(i + 1,
                [k \in DOMAIN regs \cup {pipe.id} |-> IF k = pipe.id THEN pipe ELSE regs[k]],
                IF Get(engine, "default", FALSE) THEN pipe.id ELSE dflt, log2)

\* the loop of loadPipelines from position i on: registry, default pointer,
\* the buildPipeline calls made, and the outcome with the error raised
RECURSIVE LoadFrom(_, _, _, _)
LoadFrom(i, regs, dflt, log) ==
  IF i > Len(engines)
  THEN [pipelines |-> regs, default |-> dflt, outcome |-> "loaded", builds |-> log, error |-> ""]
  ELSE LET engine == engines[i] IN
    IF ~Get(engine, "enabled", FALSE) THEN LoadFrom(i + 1, regs, dflt, log)
    ELSE LET made == buildPipeline(engine)
             log2 == Append(log, [id |-> engine.id, class |-> engine.class,
                                  outcome |-> made.outcome, loads |-> made.loads])
         IN IF made.outcome = "raised"
            THEN [pipelines |-> regs, default |-> dflt, outcome |-> "failed",
                  builds |-> log2, error |-> "from_pretrained"]
            ELSE IF made.outcome = "None"
            THEN [pipelines |-> regs, default |-> dflt, outcome |-> "failed",
                  builds |-> log2, error |-> "Unknown engine class"]
            ELSE LET pipe == made.pipe[1] IN
              LoadFrom(i + 1,
                [k \in DOMAIN regs \cup {pipe.id} |-> IF k = pipe.id THEN pipe ELSE regs[k]],
                IF Get(engine, "default", FALSE) THEN pipe.id ELSE dflt, log2)

\* loadPipelines, run once by the serving process at startup
loadPipelines ==
  /\ loadState = "new"
  /\ LET r == LoadFrom(1, pipelines, default, builds) IN
       /\ pipelines' = r.pipelines
       /\ default' = r.default
       /\ loadState' = r.outcome
       /\ builds' = r.builds
       /\ loadError' = r.error
  /\ UNCHANGED <<modeVars, cfgVars, runVars, thrVars, status, modeRead, engines, active, ncalls, lastArg, lastResult, lastCalls,
                 prevArg, prevResult, genVars, iterVars>>

\* getStatus that lists every config
getStatus_all ==
  [id \in {engines[i].id : i \in 1..Len(engines)} |-> id \in DOMAIN pipelines]

\* getStatus: every config that is not explicitly disabled, mapped to whether
\* its identifier is registered
getStatus ==
  LET listed == {engines[i].id : i \in {j \in 1..Len(engines) : Get(engines[j], "enabled", TRUE)}}
  IN [id \in listed |-> id \in DOMAIN pipelines]

\* a health check reads the status; the read is tagged with the load state
GetStatusCall ==
  /\ status' = <<[at |-> loadState, map |-> getStatus]>>
  /\ UNCHANGED <<modeVars, cfgVars, runVars, thrVars, builds, loadError, modeRead, mgrVars, genVars, iterVars>>

\* getPipe without the early lookup: the state and log after a call with id
getPipe_lookup_first(id) ==
  IF active /= None /\ id = pipelines[active].id
  THEN [pipelines |-> pipelines, active |-> active, result |-> active, calls |-> <<>>]
  ELSE IF id \notin DOMAIN pipelines
  THEN [pipelines |-> pipelines, active |-> active, result |-> "KeyError", calls |-> <<>>]
  ELSE LET off == IF active /= None
                  THEN [pipelines EXCEPT ![active] = deactivate(@)]
                  ELSE pipelines
           offLog == IF active /= None THEN DeactivateLog(active) ELSE <<>>
       IN [pipelines |-> [off EXCEPT ![id] = activate(@)], active |-> id,
           result |-> id, calls |-> offLog \o ActivateLog(id)]

\* getPipe that activates the new wrapper before it deactivates the old one
getPipe_activate_first(id) ==
  IF active /= None /\ id = pipelines[active].id
  THEN [pipelines |-> pipelines, active |-> active, result |-> active, calls |-> <<>>]
  ELSE IF id \notin DOMAIN pipelines
  THEN [pipelines |-> IF active /= None THEN [pipelines EXCEPT ![active] = deactivate(@)]
                      ELSE pipelines,
        active |-> active, result |-> "KeyError",
        calls |-> IF active /= None THEN DeactivateLog(active) ELSE <<>>]
  ELSE LET on == [pipelines EXCEPT ![id] = activate(@)]
           off == IF active /= None THEN [on EXCEPT ![active] = deactivate(@)] ELSE on
           offLog == IF active /= None THEN DeactivateLog(active) ELSE <<>>
       IN [pipelines |-> off, active |-> id, result |-> id,
           calls |-> ActivateLog(id) \o offLog]

\* getPipe without the already-active fast path
getPipe_no_fast_path(id) ==
  LET off == IF active /= None
             THEN [pipelines EXCEPT ![active] = deactivate(@)]
             ELSE pipelines
      offLog == IF active /= None THEN DeactivateLog(active) ELSE <<>>
  IN IF id \notin DOMAIN pipelines
     THEN [pipelines |-> off, active |-> active, result |-> "KeyError", calls |-> offLog]
     ELSE [pipelines |-> [off EXCEPT ![id] = activate(@)], active |-> id,
           result |-> id, calls |-> offLog \o ActivateLog(id)]

\* getPipe(id): the registry, the active pointer, the returned wrapper (or
\* the KeyError of self._pipelines[id]) and the wrapper methods called
getPipe(id) ==
  IF active /= None /\ id = pipelines[active].id
  THEN [pipelines |-> pipelines, active |-> active, result |-> active, calls |-> <<>>]
  ELSE LET off == IF active /= None
                  THEN [pipelines EXCEPT ![active] = deactivate(@)]
                  ELSE pipelines
           offLog == IF active /= None THEN DeactivateLog(active) ELSE <<>>
       IN IF id \notin DOMAIN pipelines
          THEN [pipelines |-> off, active |-> active, result |-> "KeyError", calls |-> offLog]
          ELSE [pipelines |-> [off EXCEPT ![id] = activate(@)], active |-> id,
                result |-> id, calls |-> offLog \o ActivateLog(id)]

\* one getPipe call by the serving process, calls made one at a time
GetPipeCall ==
  /\ ncalls < MaxCalls
  /\ \E id \in EngineIds \cup {UnknownId} :
       LET r == getPipe(id) IN
         /\ pipelines' = r.pipelines
         /\ active' = r.active
         /\ lastArg' = id
         /\ lastResult' = r.result
         /\ lastCalls' = r.calls
  /\ ncalls' = ncalls + 1
  /\ prevArg' = lastArg
  /\ prevResult' = lastResult
  /\ UNCHANGED <<modeVars, cfgVars, runVars, thrVars, loadVars, modeRead, engines, default, loadState, genVars, iterVars>>

\* getPipe(id) run by thread t, one statement per step. The fast-path test:
\* the thread is called with a registered identifier other than the one the
\* other thread was called with
TestActive(t) ==
  /\ tpc[t] = "idle"
  /\ loadState = "loaded"
  /\ \E id \in DOMAIN pipelines \ {targ[u] : u \in Threads} :
       /\ targ' = [targ EXCEPT ![t] = id]
       /\ IF active /= None /\ id = pipelines[active].id
          THEN tpc' = [tpc EXCEPT ![t] = "done"] /\ tret' = [tret EXCEPT ![t] = active]
          ELSE tpc' = [tpc EXCEPT ![t] = "deactivate"] /\ UNCHANGED tret
  /\ UNCHANGED <<modeVars, cfgVars, runVars, loadVars, modeRead, mgrVars, genVars, iterVars>>

\* if self._active: self._active.deactivate()
DeactivateOld(t) ==
  /\ tpc[t] = "deactivate"
  /\ pipelines' = IF active /= None THEN [pipelines EXCEPT ![active] = deactivate(@)]
                  ELSE pipelines
  /\ tpc' = [tpc EXCEPT ![t] = "assign"]
  /\ UNCHANGED <<modeVars, cfgVars, runVars, loadVars, modeRead, engines, default, active, loadState,
                 ncalls, lastArg, lastResult, lastCalls, prevArg, prevResult, genVars, iterVars,
                 targ, tret>>

\* self._active = self._pipelines[id]
AssignActive(t) ==
  /\ tpc[t] = "assign"
  /\ active' = targ[t]
  /\ tpc' = [tpc EXCEPT ![t] = "activate"]
  /\ UNCHANGED <<modeVars, cfgVars, runVars, loadVars, modeRead, engines, pipelines, default,
                 loadState, ncalls, lastArg, lastResult, lastCalls, prevArg, prevResult, genVars,
                 iterVars, targ, tret>>

\* self._active.activate(), on whatever the active pointer refers to now
ActivateNew(t) ==
  /\ tpc[t] = "activate"
  /\ pipelines' = [pipelines EXCEPT ![active] = activate(@)]
  /\ tpc' = [tpc EXCEPT ![t] = "return"]
  /\ UNCHANGED <<modeVars, cfgVars, runVars, loadVars, modeRead, engines, default, active, loadState,
                 ncalls, lastArg, lastResult, lastCalls, prevArg, prevResult, genVars, iterVars,
                 targ, tret>>

\* return self._active
ReturnActive(t) ==
  /\ tpc[t] = "return"
  /\ tret' = [tret EXCEPT ![t] = active]
  /\ tpc' = [tpc EXCEPT ![t] = "done"]
  /\ UNCHANGED <<modeVars, cfgVars, runVars, loadVars, modeRead, mgrVars, genVars, iterVars, targ>>

\* getPipe calls made one at a time before the threads start
SerialGetPipe == (\A t \in Threads : tpc[t] = "idle") /\ GetPipeCall

(***************************************************************************)
(* PipelineWrapper: scheduler set and generate                             *)
(***************************************************************************)
\* scheduler configurations as loaded: no steps_offset field, a legacy
\* offset, or the unit offset
SchedulerConfigs == {<<>>, [steps_offset |-> 0], [steps_offset |-> 1]}

\* an alternate is built from keyword arguments that do not name
\* steps_offset: the field is absent or at a class default other than 1
AlternateConfigs == {<<>>, [steps_offset |-> 0]}

SamplerValues ==
  {None, "SAMPLER_DDIM", "SAMPLER_DDPM", "SAMPLER_K_EULER", "SAMPLER_K_EULER_ANCESTRAL",
   "SAMPLER_K_HEUN", "SAMPLER_K_LMS"}
SeedValues == {0, 1}
Callbacks == {None, "cb1"}
StopEvents == {None, "ev1"}

\* one wrapper around a pipeline that was loaded with its default scheduler
GenInit ==
  /\ \E c \in SchedulerConfigs :
       schedulers = <<[kind |-> "pipeline", format |-> "np", config |-> c]>>
  /\ sched = <<>>
  /\ built = <<>>
  /\ warnings = 0
  /\ pipeScheduler = 1
  /\ pipeProgressBar = <<>>
  /\ pipeDevice \in {"cpu", device}
  /\ pipeCalls = 0
  /\ lastInvoke = <<>>
  /\ genCount = 0
  /\ lastGen = <<>>
  /\ prevSampler = ""

\* does _prepScheduler rewrite this configuration
Outdated(config) == "steps_offset" \in DOMAIN config /\ config.steps_offset /= 1

\* _prepScheduler that only sets the format
prepScheduler_no_migration(scheduler) == [scheduler EXCEPT !.format = "pt"]

\* _prepScheduler: the scheduler in "pt" format with a unit steps_offset
prepScheduler(scheduler) ==
  [scheduler EXCEPT !.format = "pt",
                    !.config = IF Outdated(@) THEN [@ EXCEPT !.steps_offset = 1] ELSE @]

\* PipelineWrapper.__init__, scheduler part: keep the pipeline's scheduler
\* and build the four alternates
NewSchedulerSet ==
  /\ sched = <<>>
  /\ \E cfg \in [{"klms", "ddim", "euler", "eulera"} -> AlternateConfigs] :
       LET n == Len(schedulers)
           fresh(k) == [kind |-> k, format |-> "np", config |-> cfg[k]]
           set == [plms |-> pipeScheduler, klms |-> n + 1, ddim |-> n + 2,
                   euler |-> n + 3, eulera |-> n + 4]
       IN /\ schedulers' = schedulers \o <<prepScheduler(fresh("klms")), prepScheduler(fresh("ddim")),
                                            prepScheduler(fresh("euler")), prepScheduler(fresh("eulera"))>>
          /\ sched' = set
          /\ built' = set
          /\ warnings' = warnings + Cardinality({k \in DOMAIN cfg : Outdated(cfg[k])})
  /\ UNCHANGED <<modeVars, cfgVars, runVars, thrVars, loadVars, modeRead, mgrVars, iterVars, pipeScheduler, pipeProgressBar, pipeDevice,
                 pipeCalls, lastInvoke, genCount, lastGen, prevSampler>>

\* the wrapper field generate reads for a sampler value, "" if unsupported
SchedulerField(sampler) ==
  IF sampler = None \/ sampler = "SAMPLER_DDPM" THEN "plms"
  ELSE IF sampler = "SAMPLER_K_LMS" THEN "klms"
  ELSE IF sampler = "SAMPLER_DDIM" THEN "ddim"
  ELSE IF sampler = "SAMPLER_K_EULER" THEN "euler"
  ELSE IF sampler = "SAMPLER_K_EULER_ANCESTRAL" THEN "eulera"
  ELSE ""

\* a generator built for every seed that is not negative
Generator_nonneg(seed) ==
  IF seed >= 0
  THEN <<[device |-> IF pipeDevice = "mps" THEN "cpu" ELSE pipeDevice, seed |-> seed]>>
  ELSE <<>>

\* the generator handed to the pipeline: <<>> for none
Generator(seed) ==
  IF seed > 0
  THEN <<[device |-> IF pipeDevice = "mps" THEN "cpu" ELSE pipeDevice, seed |-> seed]>>
  ELSE <<>>

\* generate that installs the progress reporter before it resolves the sampler
generate_reporter_first(sampler, seed, progress_callback, stop_event, raised) ==
  /\ pipeProgressBar' = <<[progress_callback |-> progress_callback,
                           stop_event |-> stop_event, call |-> genCount + 1]>>
  /\ IF SchedulerField(sampler) = ""
     THEN /\ lastGen' = <<[sampler |-> sampler, seed |-> seed, outcome |-> "NotImplementedError"]>>
          /\ UNCHANGED <<schedulers, sched, pipeScheduler, pipeCalls, lastInvoke>>
     ELSE /\ pipeScheduler' = sched[SchedulerField(sampler)]
          /\ pipeCalls' = pipeCalls + 1
          /\ lastInvoke' = <<[scheduler |-> pipeScheduler', progress_bar |-> pipeProgressBar',
                              generator |-> Generator(seed), autocast |-> (device = "cuda")]>>
          /\ lastGen' = <<[sampler |-> sampler, seed |-> seed,
                           outcome |-> IF raised THEN "raised" ELSE "images"]>>
          /\ UNCHANGED <<schedulers, sched>>

\* generate that builds the selected scheduler anew on every call
generate_rebuild(sampler, seed, progress_callback, stop_event, raised) ==
  IF SchedulerField(sampler) = ""
  THEN /\ lastGen' = <<[sampler |-> sampler, seed |-> seed, outcome |-> "NotImplementedError"]>>
       /\ UNCHANGED <<schedulers, sched, pipeScheduler, pipeProgressBar, pipeCalls, lastInvoke>>
  ELSE /\ schedulers' = Append(schedulers, schedulers[sched[SchedulerField(sampler)]])
       /\ pipeScheduler' = Len(schedulers')
       /\ pipeProgressBar' = <<[progress_callback |-> progress_callback,
                                stop_event |-> stop_event, call |-> genCount + 1]>>
       /\ pipeCalls' = pipeCalls + 1
       /\ lastInvoke' = <<[scheduler |-> pipeScheduler', progress_bar |-> pipeProgressBar',
                           generator |-> Generator(seed), autocast |-> (device = "cuda")]>>
       /\ lastGen' = <<[sampler |-> sampler, seed |-> seed,
                        outcome |-> IF raised THEN "raised" ELSE "images"]>>
       /\ UNCHANGED sched

\* generate that installs a progress reporter only when the pipeline has none
generate_keep_reporter(sampler, seed, progress_callback, stop_event, raised) ==
  IF SchedulerField(sampler) = ""
  THEN /\ lastGen' = <<[sampler |-> sampler, seed |-> seed, outcome |-> "NotImplementedError"]>>
       /\ UNCHANGED <<schedulers, sched, pipeScheduler, pipeProgressBar, pipeCalls, lastInvoke>>
  ELSE /\ pipeScheduler' = sched[SchedulerField(sampler)]
       /\ pipeProgressBar' = IF pipeProgressBar = <<>>
                              THEN <<[progress_callback |-> progress_callback,
                                      stop_event |-> stop_event, call |-> genCount + 1]>>
                              ELSE pipeProgressBar
       /\ pipeCalls' = pipeCalls + 1
       /\ lastInvoke' = <<[scheduler |-> pipeScheduler', progress_bar |-> pipeProgressBar',
                           generator |-> Generator(seed), autocast |-> (device = "cuda")]>>
       /\ lastGen' = <<[sampler |-> sampler, seed |-> seed,
                        outcome |-> IF raised THEN "raised" ELSE "images"]>>
       /\ UNCHANGED <<schedulers, sched>>

\* generate(text, params, progress_callback, stop_event): the sampler is
\* resolved, then scheduler and progress reporter are installed and the
\* pipeline is invoked; the pipeline returns images or raises
generate(sampler, seed, progress_callback, stop_event, raised) ==
  IF SchedulerField(sampler) = ""
  THEN /\ lastGen' = <<[sampler |-> sampler, seed |-> seed, outcome |-> "NotImplementedError"]>>
       /\ UNCHANGED <<schedulers, sched, pipeScheduler, pipeProgressBar, pipeCalls, lastInvoke>>
  ELSE /\ pipeScheduler' = sched[SchedulerField(sampler)]
       /\ pipeProgressBar' = <<[progress_callback |-> progress_callback,
                                stop_event |-> stop_event, call |-> genCount + 1]>>
       /\ pipeCalls' = pipeCalls + 1
       /\ lastInvoke' = <<[scheduler |-> pipeScheduler', progress_bar |-> pipeProgressBar',
                           generator |-> Generator(seed), autocast |-> (device = "cuda")]>>
       /\ lastGen' = <<[sampler |-> sampler, seed |-> seed,
                        outcome |-> IF raised THEN "raised" ELSE "images"]>>
       /\ UNCHANGED <<schedulers, sched>>

GenerateCall ==
  /\ sched /= <<>>
  /\ genCount < MaxGen
  /\ \E sampler \in SamplerValues, seed \in SeedValues, cb \in Callbacks,
        ev \in StopEvents, raised \in BOOLEAN :
       generate(sampler, seed, cb, ev, raised)
  /\ genCount' = genCount + 1
  /\ prevSampler' = IF lastGen = <<>> THEN "" ELSE lastGen[1].sampler
  /\ UNCHANGED <<modeVars, cfgVars, runVars, thrVars, loadVars, modeRead, mgrVars, iterVars, built, warnings, pipeDevice>>

\* seeds on both sides of zero, two of them positive
SeedRange == {-1, 0, 1, 2}

\* generate calls that differ in the seed, for the default sampler, an
\* alternate and an unsupported one
GenerateSeedCall ==
  /\ sched /= <<>>
  /\ genCount < MaxGen
  /\ \E sampler \in {None, "SAMPLER_K_LMS", "SAMPLER_K_HEUN"}, seed \in SeedRange :
       generate(sampler, seed, None, None, FALSE)
  /\ genCount' = genCount + 1
  /\ prevSampler' = IF lastGen = <<>> THEN "" ELSE lastGen[1].sampler
  /\ UNCHANGED <<modeVars, cfgVars, runVars, thrVars, loadVars, modeRead, mgrVars, iterVars, built, warnings, pipeDevice>>

(***************************************************************************)
(* ProgressBarWrapper and the step iteration of InternalTqdm               *)
(***************************************************************************)
Events == {"ev1", "ev2"}

IterInit ==
  /\ iter = <<>>
  /\ eventsSet \in SUBSET Events
  /\ cbLog = <<>>
  /\ stopSetAt = -1
  /\ callArgs = <<>>

\* ProgressBarWrapper.__init__ with any callback and stop event
ProgressBarWrappers ==
  {<<[progress_callback |-> cb, stop_event |-> ev, call |-> 1]>> : cb \in Callbacks, ev \in StopEvents}

\* ProgressBarWrapper.__call__: the pipeline wraps its list of steps
StartLoop ==
  /\ pipeProgressBar /= <<>>
  /\ iter = <<>>
  /\ \E total \in 0..MaxSteps :
       iter' = <<[progress_callback |-> pipeProgressBar[1].progress_callback,
                  stop_event |-> pipeProgressBar[1].stop_event,
                  total |-> total, pulled |-> 0, yielded |-> 0,
                  state |-> "running", desc |-> ""]>>
  /\ stopSetAt' = IF pipeProgressBar[1].stop_event \in eventsSet THEN 0 ELSE -1
  /\ UNCHANGED <<modeVars, cfgVars, runVars, thrVars, loadVars, modeRead, mgrVars, genVars, eventsSet, cbLog>>

\* InternalTqdm.update as tqdm calls it when the loop comes back for the
\* next element: the callback runs only if the bar was displayed
update(t, displayed) ==
  IF displayed /\ t.progress_callback /= None THEN Append(cbLog, t.progress_callback) ELSE cbLog

\* __iter__ that yields the element before it looks at the stop event
IterBody_check_after_yield(t) ==
  IF t.pulled = t.total THEN [t EXCEPT !.state = "exhausted"]
  ELSE IF t.stop_event /= None /\ t.stop_event \in eventsSet /\ t.pulled > 0
  THEN [t EXCEPT !.pulled = @ + 1, !.state = "aborted", !.desc = "ABORTED"]
  ELSE [t EXCEPT !.pulled = @ + 1, !.yielded = @ + 1]

\* one round of InternalTqdm.__iter__: take the next element of the wrapped
\* iteration; stop if the stop event is set, else yield the element
IterBody(t) ==
  IF t.pulled = t.total THEN [t EXCEPT !.state = "exhausted"]
  ELSE IF t.stop_event /= None /\ t.stop_event \in eventsSet
  THEN [t EXCEPT !.pulled = @ + 1, !.state = "aborted", !.desc = "ABORTED"]
  ELSE [t EXCEPT !.pulled = @ + 1, !.yielded = @ + 1]

\* the step loop asks for its next element
IterNext ==
  /\ iter /= <<>>
  /\ iter[1].state = "running"
  /\ iter' = <<IterBody(iter[1])>>
  /\ \E displayed \in BOOLEAN :
       cbLog' = IF iter[1].pulled > 0 THEN update(iter[1], displayed) ELSE cbLog
  /\ UNCHANGED <<modeVars, cfgVars, runVars, thrVars, loadVars, modeRead, mgrVars, genVars, eventsSet, stopSetAt>>

\* another thread sets a stop event
SetEvent ==
  /\ \E ev \in Events \ eventsSet :
       /\ eventsSet' = eventsSet \cup {ev}
       /\ stopSetAt' = IF iter /= <<>> /\ iter[1].stop_event = ev THEN iter[1].yielded
                       ELSE stopSetAt
  /\ UNCHANGED <<modeVars, cfgVars, runVars, thrVars, loadVars, modeRead, mgrVars, genVars, iter, cbLog>>

\* another thread clears a stop event
ClearEvent ==
  /\ \E ev \in eventsSet :
       /\ eventsSet' = eventsSet \ {ev}
       /\ stopSetAt' = IF iter /= <<>> /\ iter[1].stop_event = ev THEN -1 ELSE stopSetAt
  /\ UNCHANGED <<modeVars, cfgVars, runVars, thrVars, loadVars, modeRead, mgrVars, genVars, iter, cbLog>>

\* callbacks and stop events of the calls of a serialized run
RunCallbacks == {None, "cb1", "cb2"}
RunStopEvents == {None} \cup Events

\* no step loop is running on the wrapper
LoopIdle == IF iter = <<>> THEN TRUE ELSE iter[1].state /= "running"

\* one generate call of a serialized run, made when the previous call's loop
\* has ended: generate installs scheduler and reporter and invokes the
\* pipeline, which wraps its list of steps in the installed reporter
RunGenerate ==
  /\ sched /= <<>>
  /\ genCount < MaxGen
  /\ LoopIdle
  /\ \E sampler \in {None, "SAMPLER_K_LMS", "SAMPLER_K_HEUN"},
        cb \in RunCallbacks, ev \in RunStopEvents :
       /\ generate(sampler, 0, cb, ev, FALSE)
       /\ callArgs' = Keep2(Append(callArgs, [sampler |-> sampler, progress_callback |-> cb,
                                               stop_event |-> ev]))
  /\ genCount' = genCount + 1
  /\ prevSampler' = IF lastGen = <<>> THEN "" ELSE lastGen[1].sampler
  /\ IF lastGen'[1].outcome = "NotImplementedError"
     THEN UNCHANGED <<iter, cbLog, stopSetAt>>
     ELSE /\ \E total \in 0..MaxSteps :
               iter' = <<[progress_callback |-> pipeProgressBar'[1].progress_callback,
                          stop_event |-> pipeProgressBar'[1].stop_event,
                          total |-> total, pulled |-> 0, yielded |-> 0,
                          state |-> "running", desc |-> ""]>>
          /\ cbLog' = <<>>
          /\ stopSetAt' = IF pipeProgressBar'[1].stop_event \in eventsSet THEN 0 ELSE -1
  /\ UNCHANGED <<modeVars, cfgVars, thrVars, loadVars, modeRead, mgrVars, built, warnings,
                 pipeDevice, eventsSet>>

(***************************************************************************)
(* Specifications                                                          *)
(***************************************************************************)
\* no wrapper under generate: a pipeline with its own scheduler, on the host
GenIdle ==
  /\ schedulers = <<[kind |-> "pipeline", format |-> "np", config |-> <<>>]>>
  /\ sched = <<>> /\ built = <<>> /\ warnings = 0
  /\ pipeScheduler = 1
  /\ pipeProgressBar = <<>>
  /\ pipeDevice = "cpu"
  /\ pipeCalls = 0 /\ lastInvoke = <<>>
  /\ genCount = 0 /\ lastGen = <<>> /\ prevSampler = ""

\* EngineManager(engines) with the default weight root and nsfw behaviour, no
\* HF_API_TOKEN, and no local weight directory
CfgDefault ==
  /\ nsfw = "block"
  /\ weight_root = <<".", "weights">>
  /\ token = "True"
  /\ dirs = {}

\* no step loop, no stop event set
IterIdle == iter = <<>> /\ eventsSet = {} /\ cbLog = <<>> /\ stopSetAt = -1 /\ callArgs = <<>>

\* the policy read for every level, flag and availability combination
InitMode == ModeInit /\ modeRead = <<>> /\ MgrInit({<<>>}) /\ GenIdle /\ IterIdle /\ CfgDefault
NextMode == ReadMode
SpecMode == InitMode /\ [][NextMode]_vars

\* a manager that loads its engines and serves getPipe calls
Init == ModeInit /\ modeRead = <<>> /\ MgrInit(EngineLists(MgrConfigs)) /\ GenIdle /\ IterIdle /\ CfgDefault
Next == loadPipelines \/ GetPipeCall
Spec == Init /\ [][Next]_vars

\* configs of the loading scenarios: enabled, disabled and omitted flags, an
\* unrecognised class tag, and weights that cannot be fetched
LoadConfigs ==
  {[class |-> "StableDiffusionPipeline", model |-> <<"m1">>, enabled |-> TRUE, default |-> TRUE],
   [class |-> "UnifiedPipeline", model |-> <<"m2">>, enabled |-> TRUE, use_auth_token |-> TRUE],
   [class |-> "StableDiffusionPipeline", model |-> <<"m1">>, enabled |-> FALSE, default |-> TRUE],
   [class |-> "UnifiedPipeline", model |-> <<"m2">>],
   [class |-> "LatentDiffusionPipeline", model |-> <<"m1">>, enabled |-> TRUE, default |-> TRUE],
   [class |-> "LatentDiffusionPipeline", model |-> <<"gone">>, enabled |-> TRUE],
   [class |-> "StableDiffusionPipeline", model |-> <<"gone">>, enabled |-> TRUE, default |-> TRUE]}

\* a manager with either nsfw behaviour that loads its engines while a health
\* check reads the status
InitLoad ==
  /\ ModeDefault /\ modeRead = <<>> /\ MgrInit(EngineLists(LoadConfigs)) /\ GenIdle /\ IterIdle
  /\ nsfw \in {"block", "flag"}
  /\ weight_root = <<".", "weights">>
  /\ token = "True"
  /\ dirs = {}
NextLoad == loadPipelines \/ GetStatusCall
SpecLoad == InitLoad /\ [][NextLoad]_vars

\* activate() called on a registered wrapper by its owner; lastCalls keeps the
\* latest two direct calls
ActivateCall ==
  /\ ncalls < MaxCalls
  /\ \E id \in DOMAIN pipelines :
       /\ pipelines' = [pipelines EXCEPT ![id] = activate(@)]
       /\ lastCalls' = Keep2(lastCalls \o ActivateLog(id))
  /\ ncalls' = ncalls + 1
  /\ UNCHANGED <<modeVars, cfgVars, runVars, thrVars, loadVars, modeRead, engines, default, active, loadState,
                 lastArg, lastResult, prevArg, prevResult, genVars, iterVars>>

\* deactivate() called on a registered wrapper by its owner
DeactivateCall ==
  /\ ncalls < MaxCalls
  /\ \E id \in DOMAIN pipelines :
       /\ pipelines' = [pipelines EXCEPT ![id] = deactivate(@)]
       /\ lastCalls' = Keep2(Append(lastCalls, Head(DeactivateLog(id))))
  /\ ncalls' = ncalls + 1
  /\ UNCHANGED <<modeVars, cfgVars, runVars, thrVars, loadVars, modeRead, engines, default, active, loadState,
                 lastArg, lastResult, prevArg, prevResult, genVars, iterVars>>

\* configs of the placement scenarios: both pipeline classes
WrapConfigs ==
  {[class |-> "StableDiffusionPipeline", model |-> <<"m1">>, enabled |-> TRUE],
   [class |-> "UnifiedPipeline", model |-> <<"m2">>, enabled |-> TRUE]}

\* wrappers of every mode, loaded and then activated and deactivated directly
InitWrap ==
  /\ ModeInit /\ modeRead = <<>> /\ MgrInit(EngineLists(WrapConfigs)) /\ GenIdle /\ IterIdle
  /\ CfgDefault
NextWrap == loadPipelines \/ ActivateCall \/ DeactivateCall
SpecWrap == InitWrap /\ [][NextWrap]_vars

\* configs of the weight-location scenarios: local_model omitted, empty,
\* relative, relative with a "." component, absolute, absolute with ".."
WeightConfigs ==
  {[class |-> "StableDiffusionPipeline", model |-> <<"m1">>, enabled |-> TRUE],
   [class |-> "StableDiffusionPipeline", model |-> <<"m1">>, enabled |-> TRUE,
    local_model |-> <<>>],
   [class |-> "StableDiffusionPipeline", model |-> <<"m1">>, enabled |-> TRUE,
    local_model |-> <<"sd">>],
   [class |-> "StableDiffusionPipeline", model |-> <<"m1">>, enabled |-> TRUE,
    local_model |-> <<".", "sd">>],
   [class |-> "StableDiffusionPipeline", model |-> <<"m1">>, enabled |-> TRUE,
    local_model |-> <<"/", "opt", "sd">>],
   [class |-> "StableDiffusionPipeline", model |-> <<"m1">>, enabled |-> TRUE,
    local_model |-> <<"/", "opt", "..", "opt", "sd">>]}

\* weight roots: the default "./weights" and an absolute one
WeightRoots == {<<".", "weights">>, <<"/", "srv">>}

\* directories that may exist on the file system, by normalised path
CandidateDirs ==
  {<<"weights">>, <<"weights", "sd">>, <<"/", "srv">>, <<"/", "srv", "sd">>, <<"/", "opt", "sd">>}

\* a manager over some file system that loads engines with local weights
InitWeight ==
  /\ ModeDefault /\ cudaAvail /\ ~mpsAvail
  /\ modeRead = <<>> /\ MgrInit(EngineLists(WeightConfigs)) /\ GenIdle /\ IterIdle
  /\ nsfw = "block"
  /\ weight_root \in WeightRoots
  /\ token = "True"
  /\ dirs \in SUBSET CandidateDirs
NextWeight == loadPipelines
SpecWeight == InitWeight /\ [][NextWeight]_vars

\* one wrapper that is constructed and then serves generate calls one at a
\* time, on a host with both accelerators where the mode resolves to cuda or
\* to mps and the pipeline is on the host or on that device
ModeGen ==
  /\ vramO = 0
  /\ enable_cuda \in BOOLEAN
  /\ enable_mps = TRUE
  /\ cudaAvail = TRUE
  /\ mpsAvail = TRUE
InitGen == ModeGen /\ modeRead = <<>> /\ MgrInit({<<>>}) /\ GenInit /\ IterIdle /\ CfgDefault
NextGen == NewSchedulerSet \/ GenerateCall
SpecGen == InitGen /\ [][NextGen]_vars

\* one wrapper whose pipeline sits on the host or on either accelerator and
\* serves generate calls with every kind of seed
InitSeed == InitGen
NextSeed == NewSchedulerSet \/ GenerateSeedCall
SpecSeed == InitSeed /\ [][NextSeed]_vars

\* configs of the two-thread scenarios: every engine enabled and buildable
ConcConfigs == {[class |-> "StableDiffusionPipeline", model |-> <<"m1">>, enabled |-> TRUE]}

\* a manager under the default mode whose getPipe is called from two threads
\* at once, after any number of calls made one at a time
InitConc ==
  /\ ModeDefault /\ modeRead = <<>> /\ MgrInit(EngineLists(ConcConfigs)) /\ GenIdle /\ IterIdle
  /\ CfgDefault
NextConc ==
  \/ loadPipelines
  \/ SerialGetPipe
  \/ \E t \in Threads :
       TestActive(t) \/ DeactivateOld(t) \/ AssignActive(t) \/ ActivateNew(t) \/ ReturnActive(t)
SpecConc == InitConc /\ [][NextConc]_vars

\* PipelineWrapper.__init__ has run on a pipeline with a current scheduler
\* configuration: the default scheduler and the four alternates
WrapperBuilt ==
  /\ schedulers = <<[kind |-> "pipeline", format |-> "np", config |-> <<>>],
                    prepScheduler([kind |-> "klms", format |-> "np", config |-> <<>>]),
                    prepScheduler([kind |-> "ddim", format |-> "np", config |-> <<>>]),
                    prepScheduler([kind |-> "euler", format |-> "np", config |-> <<>>]),
                    prepScheduler([kind |-> "eulera", format |-> "np", config |-> <<>>])>>
  /\ sched = [plms |-> 1, klms |-> 2, ddim |-> 3, euler |-> 4, eulera |-> 5]
  /\ built = sched
  /\ warnings = 0
  /\ pipeScheduler = 1
  /\ pipeProgressBar = <<>>
  /\ pipeDevice = "cpu"
  /\ pipeCalls = 0 /\ lastInvoke = <<>>
  /\ genCount = 0 /\ lastGen = <<>> /\ prevSampler = ""

\* one wrapper serving generate calls one after the other, each with its own
\* callback and stop event, while other threads set and clear stop events
InitRun ==
  /\ ModeDefault /\ cudaAvail /\ ~mpsAvail
  /\ modeRead = <<>> /\ MgrInit({<<>>}) /\ WrapperBuilt /\ IterIdle /\ CfgDefault
NextRun == RunGenerate \/ IterNext \/ SetEvent \/ ClearEvent
SpecRun == InitRun /\ [][NextRun]_vars

\* one step loop under an installed progress reporter, with other threads
\* setting and clearing stop events; the loop keeps asking for elements
InitIter ==
  /\ ModeDefault /\ modeRead = <<>> /\ MgrInit({<<>>}) /\ IterInit /\ CfgDefault
  /\ schedulers = <<[kind |-> "pipeline", format |-> "np", config |-> <<>>]>>
  /\ sched = <<>> /\ built = <<>> /\ warnings = 0
  /\ pipeScheduler = 1
  /\ pipeProgressBar \in ProgressBarWrappers
  /\ pipeDevice = "cpu"
  /\ pipeCalls = 0 /\ lastInvoke = <<>>
  /\ genCount = 0 /\ lastGen = <<>> /\ prevSampler = ""
NextIter == StartLoop \/ IterNext \/ SetEvent \/ ClearEvent
SpecIter == InitIter /\ [][NextIter]_vars /\ WF_vars(IterNext)

(***************************************************************************)
(* Properties of the registry and its single active wrapper                *)
(***************************************************************************)
AcceleratorResident(w) == w.unetDev /= "cpu" \/ w.restDev /= "cpu"

HostResident(w) == w.unetDev = "cpu" /\ w.restDev = "cpu"

\* the placement activate() leaves behind
Activated(w) ==
  IF cuda_only_unet THEN w.unetDev = "cuda"
  ELSE w.unetDev = device /\ w.restDev = device

Registered == DOMAIN pipelines

ResidentIds == {k \in Registered : AcceleratorResident(pipelines[k])}

\* position of the first log entry with this operation and wrapper, 0 if none
FirstIndex(log, op, id) ==
  IF \E i \in 1..Len(log) : log[i].op = op /\ log[i].id = id
  THEN CHOOSE i \in 1..Len(log) :
         /\ log[i].op = op /\ log[i].id = id
         /\ \A j \in 1..(i - 1) : ~(log[j].op = op /\ log[j].id = id)
  ELSE 0

\* the last two calls were getPipe(A) returning A, then getPipe(B), with A and
\* B registered and different
SwitchedAB ==
  /\ ncalls >= 2
  /\ prevArg \in Registered /\ prevResult = prevArg
  /\ lastArg \in Registered /\ lastArg /= prevArg

\* C1: after any sequence of getPipe calls at most one registered wrapper is
\* accelerator-resident, and every wrapper other than the active one is
\* host-resident.
C1_SingleResident ==
  /\ Cardinality(ResidentIds) <= 1
  /\ \A k \in Registered : k /= active => HostResident(pipelines[k])

\* three registered wrappers, the second call switched away from a resident
\* wrapper, and the new active wrapper is on the accelerator
C1_Witness ==
  /\ Cardinality(Registered) = NumEngines
  /\ SwitchedAB
  /\ active = lastArg
  /\ ResidentIds = {active}

\* C2: the active pointer, if set, refers to an activated wrapper, and every
\* wrapper getPipe returns is activated when it is returned.
C2_ActiveIsActivated ==
  /\ active /= None => Activated(pipelines[active])
  /\ lastResult \in Registered => Activated(pipelines[lastResult])

\* C3: a getPipe call that fails with a lookup error leaves the active
\* pointer and every wrapper's placement as they were before the call.
C3_FailedLookupMutatesNothing ==
  [][(ncalls' = ncalls + 1 /\ lastResult' = "KeyError")
       => (active' = active /\ pipelines' = pipelines)]_vars

\* C4 as stated: getPipe(A) then getPipe(B) deactivates A before it activates
\* B, and afterwards exactly one of A and B is accelerator-resident, namely
\* B, and B is the active wrapper.
C4_SwitchLeavesBOnAccelerator ==
  SwitchedAB =>
    /\ FirstIndex(lastCalls, "deactivate", prevArg) > 0
    /\ FirstIndex(lastCalls, "deactivate", prevArg) < FirstIndex(lastCalls, "activate", lastArg)
    /\ AcceleratorResident(pipelines[lastArg])
    /\ ~AcceleratorResident(pipelines[prevArg])
    /\ active = lastArg

\* C4 amended: getPipe(A) then getPipe(B) deactivates A before it activates
\* B; afterwards B is the active wrapper, A is host-resident and B is placed
\* as activate() leaves it, which is on the accelerator whenever the mode
\* resolves to an accelerator device.
C4_SwitchDeactivatesThenActivates ==
  SwitchedAB =>
    /\ FirstIndex(lastCalls, "deactivate", prevArg) > 0
    /\ FirstIndex(lastCalls, "deactivate", prevArg) < FirstIndex(lastCalls, "activate", lastArg)
    /\ active = lastArg
    /\ HostResident(pipelines[prevArg])
    /\ Activated(pipelines[lastArg])
    /\ device /= "cpu" => AcceleratorResident(pipelines[lastArg])

C4_Witness ==
  /\ SwitchedAB
  /\ device = "cuda"
  /\ Len(lastCalls) = 3
  /\ AcceleratorResident(pipelines[lastArg])

\* C5: getPipe(X) right after a successful getPipe(X) calls neither
\* deactivate nor activate, leaves the active pointer and all placement
\* unchanged, and returns the same wrapper.
C5_RepeatIsNoOp ==
  [][(ncalls' = ncalls + 1 /\ lastArg \in Registered /\ lastResult = lastArg
        /\ lastArg' = lastArg)
       => (lastCalls' = <<>> /\ active' = active /\ pipelines' = pipelines
             /\ lastResult' = lastResult)]_vars

C5_Witness ==
  /\ ncalls >= 2
  /\ prevArg \in Registered /\ prevResult = prevArg
  /\ lastArg = prevArg /\ lastResult = prevArg
  /\ lastCalls = <<>>
  /\ AcceleratorResident(pipelines[lastArg])

(***************************************************************************)
(* Properties of the mode policy                                           *)
(***************************************************************************)
\* C8: for every level, enable flag and availability combination, a reading
\* of the mode never has fp16 and cuda_only_unet both true.
C8_Fp16ExcludesUnetOnly ==
  modeRead /= <<>> => ~(modeRead[1].fp16 /\ modeRead[1].cuda_only_unet)

C8_Witness ==
  /\ modeRead /= <<>>
  /\ vramO >= 3
  /\ modeRead[1].cuda_only_unet
  /\ ~modeRead[1].fp16

\* C9 as stated: for every level >= 3 with cuda available, the device is
\* cuda, cuda_only_unet is true and fp16 is false.
C9_Level3WithCudaAvailable ==
  (modeRead /= <<>> /\ vramO >= 3 /\ cudaAvail) =>
    /\ modeRead[1].device = "cuda"
    /\ modeRead[1].cuda_only_unet
    /\ ~modeRead[1].fp16

\* C9 amended: for every level >= 3 with cuda enabled and available, the
\* device is cuda, cuda_only_unet is true and fp16 is false.
C9_Level3WithCudaEnabledAndAvailable ==
  (modeRead /= <<>> /\ vramO >= 3 /\ enable_cuda /\ cudaAvail) =>
    /\ modeRead[1].device = "cuda"
    /\ modeRead[1].cuda_only_unet
    /\ ~modeRead[1].fp16

C9_Witness ==
  /\ modeRead /= <<>>
  /\ vramO > 3
  /\ enable_cuda /\ cudaAvail /\ enable_mps /\ mpsAvail
  /\ modeRead[1].device = "cuda"

(***************************************************************************)
(* Properties of generate                                                  *)
(***************************************************************************)
SupportedSamplers ==
  {None, "SAMPLER_DDPM", "SAMPLER_K_LMS", "SAMPLER_DDIM", "SAMPLER_K_EULER",
   "SAMPLER_K_EULER_ANCESTRAL"}

\* this step is a generate call
GenerateStep == genCount' = genCount + 1

\* C6: a generate call with an unsupported sampler fails and leaves the
\* installed scheduler, the installed progress reporter and the scheduler
\* set as they were, and the underlying pipeline is not invoked.
C6_UnsupportedSamplerMutatesNothing ==
  [][(GenerateStep /\ lastGen'[1].sampler \notin SupportedSamplers)
       => /\ lastGen'[1].outcome = "NotImplementedError"
          /\ pipeScheduler' = pipeScheduler
          /\ pipeProgressBar' = pipeProgressBar
          /\ pipeCalls' = pipeCalls /\ lastInvoke' = lastInvoke
          /\ schedulers' = schedulers /\ sched' = sched]_vars

\* a rejected call after a call that installed an alternate scheduler and a
\* progress reporter
C6_Witness ==
  /\ genCount = 2
  /\ lastGen[1].outcome = "NotImplementedError"
  /\ pipeCalls = 1
  /\ pipeScheduler /= 1
  /\ pipeProgressBar /= <<>> /\ pipeProgressBar[1].call = 1

\* C10: every generate call that passes the sampler check installs the
\* scheduler instance that construction built for that sampler value, the
\* pipeline's original scheduler for an unset or default sampler, the same
\* instance as the call before it when the sampler is the same, and it
\* builds no scheduler.
C10_SchedulerIsFunctionOfSampler ==
  [][(GenerateStep /\ lastGen'[1].sampler \in SupportedSamplers)
       => /\ pipeScheduler' = built[SchedulerField(lastGen'[1].sampler)]
          /\ lastGen'[1].sampler \in {None, "SAMPLER_DDPM"}
               => schedulers[pipeScheduler'].kind = "pipeline"
          /\ (lastGen /= <<>> /\ lastGen[1].outcome /= "NotImplementedError"
                /\ lastGen[1].sampler = lastGen'[1].sampler)
               => pipeScheduler' = pipeScheduler
          /\ schedulers' = schedulers /\ sched' = sched]_vars

\* two calls in a row with the same alternate sampler, both reaching the
\* pipeline
C10_Witness ==
  /\ genCount = 2
  /\ pipeCalls = 2
  /\ prevSampler = lastGen[1].sampler
  /\ lastGen[1].sampler = "SAMPLER_K_EULER"
  /\ pipeScheduler = built.euler

(***************************************************************************)
(* Properties of the step iteration                                        *)
(***************************************************************************)
IterDone == iter /= <<>> /\ iter[1].state /= "running"

\* while the loop's stop event has been set since k steps were yielded, the
\* number of steps yielded is still k, and a loop that ended with k below
\* the total ended aborted
StopHalts ==
  (iter /= <<>> /\ stopSetAt >= 0) =>
    /\ iter[1].yielded = stopSetAt
    /\ (stopSetAt < iter[1].total /\ iter[1].state /= "running")
         => (iter[1].state = "aborted" /\ iter[1].yielded < iter[1].total)

\* C7: if the stop event is set before the loop consumes a step, no step is
\* yielded; if it is set after k < total steps were yielded and stays set, no
\* further step is yielded, so fewer than total steps are yielded; and the
\* iteration terminates.
C7_StopEndsIteration == [](StopHalts) /\ ((iter /= <<>>) ~> IterDone)

\* the stop event was set after one step of a longer loop, and the loop
\* ended aborted with that one step yielded
C7_Witness ==
  /\ iter /= <<>>
  /\ iter[1].state = "aborted"
  /\ stopSetAt = 1
  /\ iter[1].yielded = 1
  /\ iter[1].total = MaxSteps

\* the stop event was set before the first step, and the loop ended with no
\* step yielded
C7_WitnessZero ==
  /\ iter /= <<>>
  /\ iter[1].state = "aborted"
  /\ stopSetAt = 0
  /\ iter[1].yielded = 0

(***************************************************************************)
(* Properties of loadPipelines, buildPipeline and getStatus                *)
(***************************************************************************)
Positions == 1..Len(engines)

ExplicitlyDisabled(engine) == "enabled" \in DOMAIN engine /\ engine.enabled = FALSE

ExplicitlyEnabled(engine) == "enabled" \in DOMAIN engine /\ engine.enabled = TRUE

BuiltIds == {builds[i].id : i \in 1..Len(builds)}

StatusReadAfterLoad == status /= <<>> /\ status[1].at /= "new"

\* C12 as stated: after loadPipelines an engine marked enabled: false has no
\* registered pipeline, and getStatus maps its identifier to false.
C12_DisabledReportedNotReady ==
  \A i \in Positions :
    (loadState /= "new" /\ ExplicitlyDisabled(engines[i])) =>
      /\ engines[i].id \notin DOMAIN pipelines
      /\ StatusReadAfterLoad =>
           (engines[i].id \in DOMAIN status[1].map /\ ~status[1].map[engines[i].id])

\* C12 amended: after loadPipelines an engine marked enabled: false has no
\* registered pipeline and was never built, and getStatus has no entry for
\* its identifier.
C12_DisabledNotRegisteredNotListed ==
  \A i \in Positions :
    (loadState /= "new" /\ ExplicitlyDisabled(engines[i])) =>
      /\ engines[i].id \notin DOMAIN pipelines
      /\ engines[i].id \notin BuiltIds
      /\ StatusReadAfterLoad => engines[i].id \notin DOMAIN status[1].map

\* a completed load with a disabled first engine and a registered one, and a
\* status read after it that lists the registered engine
C12_Witness ==
  /\ loadState = "loaded"
  /\ ExplicitlyDisabled(engines[1])
  /\ StatusReadAfterLoad
  /\ \E id \in DOMAIN status[1].map : status[1].map[id]

\* C13 as stated: buildPipeline with an unrecognised class tag raises, and it
\* has loaded no component for that engine.
C13_UnknownClassRaisesInBuild ==
  \A i \in 1..Len(builds) :
    builds[i].class \notin KnownClasses =>
      (builds[i].outcome = "raised" /\ builds[i].loads = <<>>)

\* C13 amended: buildPipeline with an unrecognised class tag loads no pipeline
\* and returns None, from which loadPipelines raises the unknown-engine-class
\* error; under the "flag" nsfw behaviour it first loads the safety checker
\* from the engine's weights, and a failure of that load is what propagates.
C13_UnknownClassReturnsNone ==
  \A i \in 1..Len(builds) :
    builds[i].class \notin KnownClasses =>
      /\ \A j \in 1..Len(builds[i].loads) : builds[i].loads[j].component = "safety_checker"
      /\ Len(builds[i].loads) = (IF nsfw = "flag" THEN 1 ELSE 0)
      /\ loadState = "failed"
      /\ IF builds[i].outcome = "raised"
         THEN nsfw = "flag" /\ ~CanLoad(builds[i].loads[1].weight_path)
              /\ loadError = "from_pretrained"
         ELSE builds[i].outcome = "None" /\ loadError = "Unknown engine class"

\* the safety checker was loaded for an engine whose class is then not
\* recognised
C13_Witness ==
  /\ builds /= <<>>
  /\ builds[Len(builds)].class \notin KnownClasses
  /\ builds[Len(builds)].outcome = "None"
  /\ Len(builds[Len(builds)].loads) = 1
  /\ loadError = "Unknown engine class"

\* an enabled engine that cannot be built: unrecognised class, or weights
\* that cannot be fetched
CannotBuild(engine) ==
  \/ engine.class \notin KnownClasses
  \/ ~CanLoad(getWeightPath(engine.model, Get(engine, "local_model", <<>>)))

BrokenPositions == {i \in Positions : ExplicitlyEnabled(engines[i]) /\ CannotBuild(engines[i])}

FirstBroken == CHOOSE i \in BrokenPositions : \A j \in BrokenPositions : i <= j

\* C14: when an enabled engine cannot be built, loadPipelines fails at the
\* first such engine: an error is raised, that engine is not registered and
\* is not the default, and no later engine is built or registered.
C14_LoadFailsFast ==
  (loadState /= "new" /\ BrokenPositions /= {}) =>
    /\ loadState = "failed" /\ loadError /= ""
    /\ builds[Len(builds)].id = engines[FirstBroken].id
    /\ default /= engines[FirstBroken].id
    /\ \A j \in Positions :
         j >= FirstBroken => engines[j].id \notin DOMAIN pipelines
    /\ \A j \in Positions :
         j > FirstBroken => engines[j].id \notin BuiltIds

\* the load failed at the second engine, after the first one was registered
\* and before an enabled, buildable third one
C14_Witness ==
  /\ loadState = "failed"
  /\ FirstBroken = 2
  /\ engines[1].id \in DOMAIN pipelines
  /\ ExplicitlyEnabled(engines[3]) /\ ~CannotBuild(engines[3])
  /\ engines[3].id \notin DOMAIN pipelines

\* C18: the keys of getStatus are the identifiers of the configs that are not
\* explicitly disabled, and after loadPipelines has returned without error
\* every one of them is mapped to true.
C18_StatusAgreesWithLoad ==
  (status /= <<>> /\ status[1].at = "loaded") =>
    /\ DOMAIN status[1].map = {engines[i].id : i \in {j \in Positions : ~ExplicitlyDisabled(engines[j])}}
    /\ \A id \in DOMAIN status[1].map : status[1].map[id]

(***************************************************************************)
(* Weight-location resolution                                              *)
(***************************************************************************)
EngineOf(id) == engines[CHOOSE i \in Positions : engines[i].id = id]

\* the local path as the claim resolves it: as is when absolute, otherwise
\* joined to the weight root
Resolved(local_path) ==
  IF isabs(local_path) THEN local_path ELSE join(weight_root, local_path)

\* the file system finds a directory whatever the spelling of its path
ExistsDir(path) == normpath(path) \in dirs

UsedPath(i) == builds[i].loads[Len(builds[i].loads)].weight_path

\* C15 as stated: if the engine's local path, taken as is when absolute and
\* otherwise joined to the weight root, is an existing directory, the weights
\* are loaded from exactly that path; if the local path is absent or not an
\* existing directory, they are loaded from the remote identifier.
C15_ResolvedPathUsedVerbatim ==
  \A i \in 1..Len(builds) :
    LET engine == EngineOf(builds[i].id) IN
      IF "local_model" \in DOMAIN engine /\ ExistsDir(Resolved(engine.local_model))
      THEN UsedPath(i) = Resolved(engine.local_model)
      ELSE UsedPath(i) = engine.model

\* C15 amended: if the engine's local path is given and not empty and, taken
\* as is when absolute and otherwise joined to the weight root, normalises to
\* an existing directory, the weights are loaded from that normalised path;
\* if the local path is absent, empty or not an existing directory, they are
\* loaded from the remote identifier.
C15_NormalisedPathOrRemote ==
  \A i \in 1..Len(builds) :
    LET engine == EngineOf(builds[i].id)
        given == "local_model" \in DOMAIN engine /\ engine.local_model /= <<>>
    IN /\ UsedPath(i) \in dirs \cup {engine.model}
       /\ IF given /\ ExistsDir(Resolved(engine.local_model))
          THEN UsedPath(i) = normpath(Resolved(engine.local_model))
          ELSE UsedPath(i) = engine.model

\* one load used the normalised form of a relative local path, fell back to
\* the remote identifier for an absolute path that is no directory, and fell
\* back for an empty local path although the weight root exists
C15_Witness ==
  /\ Len(builds) = 3
  /\ "local_model" \in DOMAIN engines[1] /\ engines[1].local_model = <<".", "sd">>
  /\ UsedPath(1) = normpath(join(weight_root, engines[1].local_model))
  /\ UsedPath(1) /= join(weight_root, engines[1].local_model)
  /\ "local_model" \in DOMAIN engines[2] /\ isabs(engines[2].local_model)
  /\ UsedPath(2) = engines[2].model
  /\ "local_model" \in DOMAIN engines[3] /\ engines[3].local_model = <<>>
  /\ ExistsDir(weight_root)
  /\ UsedPath(3) = engines[3].model

(***************************************************************************)
(* Repeated activation                                                     *)
(***************************************************************************)
LastCall == lastCalls[Len(lastCalls)]

\* C16: activate() called on a wrapper directly after activate() on the same
\* wrapper, with no deactivate() in between, leaves the wrapper's placement as
\* the first call left it, in every mode.
C16_ActivateIdempotent ==
  [][\A id \in DOMAIN pipelines :
       (/\ lastCalls /= <<>> /\ LastCall = [op |-> "activate", id |-> id]
        /\ ncalls' = ncalls + 1
        /\ lastCalls'[Len(lastCalls')] = [op |-> "activate", id |-> id])
       => pipelines'[id] = pipelines[id]]_vars

\* two activations in a row of a wrapper whose core network alone is on the
\* accelerator
C16_Witness ==
  /\ cuda_only_unet
  /\ lastCalls = <<[op |-> "activate", id |-> "e1"], [op |-> "activate", id |-> "e1"]>>
  /\ pipelines["e1"].unetDev = "cuda"
  /\ pipelines["e1"].restDev = "cpu"

(***************************************************************************)
(* Migration of legacy scheduler configurations                            *)
(***************************************************************************)
\* the configuration of the scheduler held in a wrapper field
ConfigOf(field) == schedulers[sched[field]].config

\* C11 as stated: after construction every scheduler generate can install,
\* the pipeline's default one and each alternate, carries no step offset
\* other than 1.
C11_EveryInstallableSchedulerMigrated ==
  sched /= <<>> => \A field \in DOMAIN sched : ~Outdated(ConfigOf(field))

\* C11 amended: after construction each of the four alternate schedulers the
\* wrapper built carries no step offset other than 1, in every later state;
\* at most one warning per alternate was emitted; and no generate call
\* rewrites a scheduler configuration or emits the warning. The pipeline's
\* default scheduler is installed as it was loaded.
C11_AlternatesMigratedAtConstruction ==
  /\ [](sched /= <<>> =>
          /\ \A field \in DOMAIN sched \ {"plms"} :
               ~Outdated(ConfigOf(field)) /\ schedulers[sched[field]].format = "pt"
          /\ warnings <= Cardinality(DOMAIN sched \ {"plms"})
          /\ schedulers[sched.plms] = schedulers[1])
  /\ [][GenerateStep => (warnings' = warnings /\ schedulers' = schedulers)]_vars

\* a generate call has installed an alternate whose legacy offset was
\* migrated at construction, with the one warning of that migration
C11_Witness ==
  /\ sched /= <<>>
  /\ warnings = 1
  /\ genCount = 2
  /\ pipeScheduler = sched.klms
  /\ "steps_offset" \in DOMAIN ConfigOf("klms") /\ ConfigOf("klms").steps_offset = 1
  /\ "steps_offset" \notin DOMAIN ConfigOf("ddim")
  /\ "steps_offset" \notin DOMAIN ConfigOf("euler")
  /\ "steps_offset" \notin DOMAIN ConfigOf("eulera")

(***************************************************************************)
(* The seeded generator                                                    *)
(***************************************************************************)
\* the latest generate call reached the pipeline
LastCallInvoked == lastGen /= <<>> /\ lastGen[1].outcome /= "NotImplementedError"

\* C17: the pipeline receives a generator exactly when the call's seed is
\* above zero; the generator is on the host when the pipeline's device is mps
\* and on the pipeline's device otherwise, and it is seeded with the call's
\* seed.
C17_GeneratorIffPositiveSeed ==
  LastCallInvoked =>
    LET generator == lastInvoke[1].generator IN
      /\ generator /= <<>> <=> lastGen[1].seed > 0
      /\ generator /= <<>> =>
           /\ generator[1].seed = lastGen[1].seed
           /\ pipeDevice = "mps" => generator[1].device = "cpu"
           /\ pipeDevice /= "mps" => generator[1].device = pipeDevice

\* the second call, with seed 2 on a pipeline that sits on mps, got a host
\* generator seeded with 2
C17_Witness ==
  /\ genCount = 2
  /\ LastCallInvoked
  /\ pipeDevice = "mps"
  /\ lastGen[1].seed = 2
  /\ lastInvoke[1].generator = <<[device |-> "cpu", seed |-> 2]>>

(***************************************************************************)
(* Serialized generate calls                                               *)
(***************************************************************************)
\* the arguments of the call in progress, and of the one before it
ThisCall == callArgs[Len(callArgs)]

EarlierCall == callArgs[1]

LoopRunning == iter /= <<>> /\ iter[1].state = "running"

\* C19: in a serialized run the step loop of each generate call runs with
\* the scheduler of that call's sampler and under a reporter built from that
\* call's callback and stop event; the loop is aborted by that call's own
\* stop event only, and only that call's callback is invoked.
C19_EachCallHasItsOwnReporter ==
  /\ [](LoopRunning =>
          /\ pipeScheduler = built[SchedulerField(ThisCall.sampler)]
          /\ pipeProgressBar[1].call = genCount
          /\ iter[1].progress_callback = ThisCall.progress_callback
          /\ iter[1].stop_event = ThisCall.stop_event)
  /\ [][(LoopRunning /\ iter'[1].state = "aborted")
          => (ThisCall.stop_event /= None /\ ThisCall.stop_event \in eventsSet)]_vars
  /\ [][(LoopRunning /\ Len(cbLog') > Len(cbLog))
          => (ThisCall.progress_callback /= None
              /\ cbLog'[Len(cbLog')] = ThisCall.progress_callback)]_vars

\* the second call, given another stop event and another callback than the
\* first, ran all its steps and reported through its own callback while the
\* first call's stop event was set
C19_Witness ==
  /\ genCount = 2 /\ Len(callArgs) = 2
  /\ EarlierCall.stop_event = "ev1" /\ EarlierCall.progress_callback = "cb1"
  /\ EarlierCall.sampler = None
  /\ ThisCall.stop_event = "ev2" /\ ThisCall.progress_callback = "cb2"
  /\ ThisCall.sampler = "SAMPLER_K_LMS"
  /\ "ev1" \in eventsSet /\ "ev2" \notin eventsSet
  /\ iter /= <<>> /\ iter[1].state = "exhausted" /\ iter[1].yielded = MaxSteps
  /\ cbLog = <<"cb2", "cb2">>

(***************************************************************************)
(* getPipe called from two threads                                         *)
(***************************************************************************)
BothReturned == \A t \in Threads : tpc[t] = "done"

\* C20: once two getPipe calls for different registered identifiers, run by
\* two threads whose statements interleave, have both returned, at most one
\* wrapper is accelerator-resident and the active pointer refers to an
\* accelerator-resident wrapper (under a mode that resolves to an
\* accelerator).
C20_OneResidentAfterConcurrentCalls ==
  (BothReturned /\ device /= "cpu") =>
    /\ Cardinality(ResidentIds) <= 1
    /\ active /= None
    /\ AcceleratorResident(pipelines[active])
====
